---------------------------- MODULE Spec2Model ----------------------------
(***************************************************************************)
(* t-of-n threshold signatures (BLS over BN128, ECDSA over secp256k1) on    *)
(* a shared Shamir secret-sharing substrate.                                *)
(*                                                                          *)
(* The 256-bit groups are replaced by groups of the same shape and of      *)
(* small prime order:                                                       *)
(*   - ECDSA: the curve y^2 = x^3 + 7 (the secp256k1 equation) over F_13.  *)
(*     Its group has prime order 7 < 13, it has no point with x = 0 and    *)
(*     it has a point whose x-coordinate equals the group order (x = 7),   *)
(*     exactly as secp256k1 (no point with x = 0; x = n is on the curve).  *)
(*   - BLS: G1, G2 and GT are cyclic groups of prime order; an element is  *)
(*     written as its multiple of the generator (the point at infinity,    *)
(*     None in py_ecc, is 0) and pairing(a*G2, b*G1) = (a*b)*e(G2, G1).    *)
(* Python sequences are 0-based, the sequences here are 1-based.            *)
(***************************************************************************)
EXTENDS Integers, Sequences, FiniteSets, TLC

(***************************************************************************)
(* Bounds of the model.                                                     *)
(***************************************************************************)
MaxParties == 3

MaxThreshold == 3

MaxSigs == 3

NumMsgs == 2

MaxAttempts == 2

MaxCoeff == 3

(***************************************************************************)
(* Group parameters (scaled down).                                          *)
(***************************************************************************)
\* SECP256k1.order : the order of the ECDSA group and the Shamir modulus
SECP256k1_order == 7

\* the prime of the field the ECDSA curve is defined over
SECP256k1_p == 13

\* py_ecc.bn128.curve_order : the order of G1, G2, GT and the Shamir modulus
curve_order == 7

(***************************************************************************)
(* Results of calls: a returned value or a raised exception.                *)
(***************************************************************************)
Return(v) == [ok |-> TRUE, val |-> v, exc |-> "none"]

Raise(e) == [ok |-> FALSE, val |-> 0, exc |-> e]

\* The exceptions the code raises, by the place that raises them.
NeedThresholdSigs == "ValueError: need at least threshold partial signatures"

NeedThresholdShares == "ValueError: need at least threshold shares"

RValuesDiffer == "ValueError: the r values of all partial signatures must be equal"

BadPartyId == "ValueError: party id must be between 1 and num_parties"

NoInverse == "ValueError: No inverse value can be computed"

AssertionFailed == "AssertionError"

NoneModInt == "TypeError: unsupported operand type(s) for %: NoneType and int"

(***************************************************************************)
(* Sequences.                                                               *)
(***************************************************************************)
\* Python's seq[:k] for k >= 0
Prefix(seq, k) == SubSeq(seq, 1, IF k < Len(seq) THEN k ELSE Len(seq))

SeqsUpTo(S, k) == UNION {[1..m -> S] : m \in 0..k}

(***************************************************************************)
(* Modular arithmetic.                                                      *)
(***************************************************************************)
\* pow(x, i, prime)
RECURSIVE pow(_, _, _)
pow(x, i, prime) == IF i = 0 THEN 1 % prime ELSE (x * pow(x, i - 1, prime)) % prime

\* The loop of the extended Euclidean algorithm of Crypto.Util.number.inverse:
\* while v3 > 0: q = u3 // v3; u1, v1 = v1, u1 - v1*q; u3, v3 = v3, u3 - v3*q
RECURSIVE euclid(_, _, _, _)
euclid(u3, v3, u1, v1) ==
    IF v3 > 0
    THEN euclid(v3, u3 - v3 * (u3 \div v3), v1, u1 - v1 * (u3 \div v3))
    ELSE <<u3, u1>>

\* Crypto.Util.number.inverse(u, v): raises ValueError when gcd(u, v) # 1
inverse(u, v) ==
    LET e == euclid(u, v, 1, 0)
    IN  IF e[1] # 1 THEN Raise(NoInverse) ELSE Return(e[2] % v)

\* The loop of py_ecc.utils.prime_field_inv:
\* while low > 1: r = high // low; nm, new = hm - lm*r, high - low*r;
\*                lm, low, hm, high = nm, new, lm, low
RECURSIVE pfi_loop(_, _, _, _)
pfi_loop(lm, low, hm, high) ==
    IF low > 1
    THEN pfi_loop(hm - lm * (high \div low), high - low * (high \div low), lm, low)
    ELSE lm

\* py_ecc.utils.prime_field_inv(a, n): the inverse extended by inv(0) = 0;
\* it never raises
prime_field_inv(a, n) ==
    IF a % n = 0 THEN 0 ELSE pfi_loop(1, a % n, 0, n) % n

(***************************************************************************)
(* Shamir secret sharing (the class is the same in both files, but for the *)
(* modular inverse lagrange_coefficient calls).                             *)
(***************************************************************************)
SecretShare(x, y) == [x |-> x, y |-> y]

\* generate_polynomial: [secret] followed by threshold-1 random coefficients;
\* rand is the sequence secrets.randbelow(prime) returns, call by call
generate_polynomial(secret, rand) == <<secret>> \o rand

\* result = sum of coeff * pow(x, i, prime), reduced at every step
RECURSIVE evaluate_prefix(_, _, _, _)
evaluate_prefix(coefficients, x, prime, m) ==
    IF m = 0 THEN 0
    ELSE (evaluate_prefix(coefficients, x, prime, m - 1)
            + coefficients[m] * pow(x, m - 1, prime)) % prime

evaluate_polynomial(coefficients, x, prime) ==
    evaluate_prefix(coefficients, x, prime, Len(coefficients))

\* create_shares, given the polynomial generate_polynomial returned
shares_of(coefficients, num_parties, prime) ==
    [i \in 1..num_parties |->
        SecretShare(i, evaluate_polynomial(coefficients, i, prime))]

create_shares(secret, rand, num_parties, prime) ==
    shares_of(generate_polynomial(secret, rand), num_parties, prime)

\* lagrange_numerator with xj in place of -xj
RECURSIVE lagrange_numerator_unsigned(_, _, _, _)
lagrange_numerator_unsigned(shares, i, prime, m) ==
    IF m = 0 THEN 1
    ELSE IF m = i THEN lagrange_numerator_unsigned(shares, i, prime, m - 1)
    ELSE (lagrange_numerator_unsigned(shares, i, prime, m - 1) * shares[m].x) % prime

\* the numerator of lagrange_coefficient after the first m shares
RECURSIVE lagrange_numerator(_, _, _, _)
lagrange_numerator(shares, i, prime, m) ==
    IF m = 0 THEN 1
    ELSE IF m = i THEN lagrange_numerator(shares, i, prime, m - 1)
    ELSE (lagrange_numerator(shares, i, prime, m - 1) * (0 - shares[m].x)) % prime

\* the denominator of lagrange_coefficient after the first m shares
RECURSIVE lagrange_denominator(_, _, _, _)
lagrange_denominator(shares, i, prime, m) ==
    IF m = 0 THEN 1
    ELSE IF m = i THEN lagrange_denominator(shares, i, prime, m - 1)
    ELSE (lagrange_denominator(shares, i, prime, m - 1)
            * (shares[i].x - shares[m].x)) % prime

\* ECDSA file: numerator * inverse(denominator, prime) % prime; inverse raises
ECDSA_lagrange_coefficient(shares, i, prime) ==
    LET numerator == lagrange_numerator(shares, i, prime, Len(shares))
        denominator == lagrange_denominator(shares, i, prime, Len(shares))
        inv == inverse(denominator, prime)
    IN  IF inv.ok THEN Return((numerator * inv.val) % prime) ELSE inv

\* BLS lagrange_coefficient multiplying by the denominator instead of its inverse
BLS_lagrange_coefficient_no_inverse(shares, i, prime) ==
    (lagrange_numerator(shares, i, prime, Len(shares))
        * lagrange_denominator(shares, i, prime, Len(shares))) % prime

\* BLS file: numerator * prime_field_inv(denominator, prime) % prime
BLS_lagrange_coefficient(shares, i, prime) ==
    LET numerator == lagrange_numerator(shares, i, prime, Len(shares))
        denominator == lagrange_denominator(shares, i, prime, Len(shares))
    IN  (numerator * prime_field_inv(denominator, prime)) % prime

\* the loop of reconstruct_secret over the first m selected shares
RECURSIVE reconstruct_loop(_, _, _)
reconstruct_loop(selected_shares, prime, m) ==
    IF m = 0 THEN Return(0)
    ELSE LET before == reconstruct_loop(selected_shares, prime, m - 1)
             coeff == ECDSA_lagrange_coefficient(selected_shares, m, prime)
         IN  IF ~before.ok THEN before
             ELSE IF ~coeff.ok THEN coeff
             ELSE Return((before.val + selected_shares[m].y * coeff.val) % prime)

reconstruct_secret(shares, threshold, prime) ==
    IF Len(shares) < threshold THEN Raise(NeedThresholdShares)
    ELSE LET selected_shares == Prefix(shares, threshold)
         IN  reconstruct_loop(selected_shares, prime, Len(selected_shares))

(***************************************************************************)
(* Messages and SHA-256.  A message is one of NumMsgs byte strings; its    *)
(* digest, read as a big-endian integer, exceeds the group orders, so the  *)
(* reduction modulo the order is a real step.                               *)
(***************************************************************************)
Messages == 1..NumMsgs

\* int.from_bytes(hashlib.sha256(message).digest(), 'big')
sha256_int(message) == 15 * message - 6

(***************************************************************************)
(* The ECDSA group: points of y^2 = x^3 + 7 over the field F_SECP256k1_p,   *)
(* as the ecdsa package computes them.  INFINITY.x() is None.               *)
(***************************************************************************)
INFINITY == <<>>

field_inv(a) == pow(a % SECP256k1_p, SECP256k1_p - 2, SECP256k1_p)

point_double(pt) ==
    IF pt = INFINITY \/ pt[2] = 0 THEN INFINITY
    ELSE LET l == (3 * pt[1] * pt[1] * field_inv(2 * pt[2])) % SECP256k1_p
             x3 == (l * l - 2 * pt[1]) % SECP256k1_p
         IN  <<x3, (l * (pt[1] - x3) - pt[2]) % SECP256k1_p>>

point_add(p1, p2) ==
    IF p1 = INFINITY THEN p2
    ELSE IF p2 = INFINITY THEN p1
    ELSE IF p1[1] = p2[1]
         THEN IF (p1[2] + p2[2]) % SECP256k1_p = 0 THEN INFINITY ELSE point_double(p1)
    ELSE LET l == ((p2[2] - p1[2]) * field_inv(p2[1] - p1[1])) % SECP256k1_p
             x3 == (l * l - p1[1] - p2[1]) % SECP256k1_p
         IN  <<x3, (l * (p1[1] - x3) - p1[2]) % SECP256k1_p>>

\* k * pt
RECURSIVE point_mul(_, _)
point_mul(k, pt) ==
    IF k = 0 THEN INFINITY ELSE point_add(point_mul(k - 1, pt), pt)

\* SECP256k1.generator
generator == <<8, 5>>

\* k * SECP256k1.generator for every k modulo the order
generator_multiples == [k \in 0..(SECP256k1_order - 1) |-> point_mul(k, generator)]

generator_mul(k) == generator_multiples[k % SECP256k1_order]

\* point.x() % prime: x() of INFINITY is None and None % prime raises TypeError
x_mod(pt, prime) ==
    IF pt = INFINITY THEN Raise(NoneModInt) ELSE Return(pt[1] % prime)

(***************************************************************************)
(* The BLS groups.                                                          *)
(***************************************************************************)
G1 == 1

G2 == 1

\* py_ecc.bn128.multiply(pt, n); multiply(pt, 0) is None
multiply(pt, n) == (pt * n) % curve_order

\* py_ecc.bn128.add(p1, p2); None is the neutral element
add(p1, p2) == (p1 + p2) % curve_order

\* py_ecc.bn128.pairing(Q, P), Q in G2 and P in G1, as a power of e(G2, G1)
pairing(Q, P) == (Q * P) % curve_order

\* a tuple that is not a point of the curve
NotOnCurve == -1

\* py_ecc.bn128.is_on_curve(pt, b); None is on the curve
is_on_curve(pt) == pt # NotOnCurve

\* pairing(Q, P) as called: it asserts that Q and P are on their curves
checked_pairing(Q, P) ==
    IF ~is_on_curve(Q) \/ ~is_on_curve(P) THEN Raise(AssertionFailed)
    ELSE Return(pairing(Q, P))

\* hash_to_g1: scalar = SHA-256(message) % curve_order; multiply(G1, scalar)
hash_to_g1(message) == multiply(G1, sha256_int(message) % curve_order)

(***************************************************************************)
(* ECDSA: class ThresholdSignature.                                         *)
(***************************************************************************)
\* an absent optional argument or attribute (k = None, no _shared_k)
None == <<>>

Some(v) == <<v>>

PartialSignature(signer_id, r, s) == [signer_id |-> signer_id, r |-> r, s |-> s]

\* __init__: secret is the key SigningKey.generate drew, rand the coefficients
\* generate_polynomial drew.  Nothing is validated.
ECDSA_init(threshold, num_parties, secret, rand) ==
    [scheme |-> "ECDSA",
     threshold |-> threshold,
     num_parties |-> num_parties,
     prime |-> SECP256k1_order,
     master_key |-> secret,
     public_key |-> generator_mul(secret),
     private_shares |-> create_shares(secret, rand, num_parties, SECP256k1_order)]

get_private_share(ctx, party_id) ==
    IF party_id < 1 \/ party_id > ctx.num_parties THEN Raise(BadPartyId)
    ELSE Return(ctx.private_shares[party_id])

\* int.from_bytes(sha256(message).digest(), 'big') % self.prime
hash_int(message, prime) == sha256_int(message) % prime

\* resolve_k that ignores a cached _shared_k: it samples whenever k is omitted
resolve_k_resample(shared, k, sampled) ==
    IF k # None THEN [k |-> k[1], shared_k |-> shared]
    ELSE [k |-> sampled, shared_k |-> Some(sampled)]

\* The nonce create_partial_signature uses and the _shared_k it leaves:
\* k if given, else the cached _shared_k, else the sampled value, which it caches.
\* sampled is what secrets.randbelow(self.prime - 1) + 1 returns.
resolve_k(shared, k, sampled) ==
    IF k # None THEN [k |-> k[1], shared_k |-> shared]
    ELSE IF shared # None THEN [k |-> shared[1], shared_k |-> shared]
    ELSE [k |-> sampled, shared_k |-> Some(sampled)]

\* create_partial_signature(party_id, message, k): what it returns or raises
\* (ret) and the _shared_k attribute afterwards (shared_k)
ECDSA_create_partial_signature(ts, shared, party_id, message, k, sampled) ==
    LET private_share == get_private_share(ts, party_id)
        nonce == resolve_k(shared, k, sampled)
        point == generator_mul(nonce.k)
        r == x_mod(point, ts.prime)
        k_inv == inverse(nonce.k, ts.prime)
    IN  IF ~private_share.ok THEN [ret |-> private_share, shared_k |-> shared]
        ELSE IF ~r.ok THEN [ret |-> r, shared_k |-> nonce.shared_k]
        ELSE IF ~k_inv.ok THEN [ret |-> k_inv, shared_k |-> nonce.shared_k]
        ELSE [ret |-> Return(PartialSignature(party_id, r.val,
                        (k_inv.val * (hash_int(message, ts.prime)
                                        + r.val * private_share.val.y)) % ts.prime)),
              shared_k |-> nonce.shared_k]

\* ECDSA combine_signatures taking the position in the list as the share's x
ECDSA_combine_signatures_by_position(ts, partial_sigs, message) ==
    IF Len(partial_sigs) < ts.threshold THEN Raise(NeedThresholdSigs)
    ELSE IF Cardinality({partial_sigs[i].r : i \in 1..Len(partial_sigs)}) # 1
         THEN Raise(RValuesDiffer)
    ELSE LET selected == Prefix(partial_sigs, ts.threshold)
             s_shares == [i \in 1..Len(selected) |-> SecretShare(i, selected[i].s)]
             s_combined == reconstruct_secret(s_shares, ts.threshold, ts.prime)
         IN  IF ~s_combined.ok THEN s_combined
             ELSE Return(<<partial_sigs[1].r, s_combined.val>>)

\* ECDSA combine_signatures comparing the r values of the first threshold partial
\* signatures only
ECDSA_combine_signatures_selected_r(ts, partial_sigs, message) ==
    IF Len(partial_sigs) < ts.threshold THEN Raise(NeedThresholdSigs)
    ELSE LET selected == Prefix(partial_sigs, ts.threshold)
             s_shares == [i \in 1..Len(selected) |->
                            SecretShare(selected[i].signer_id, selected[i].s)]
             s_combined == reconstruct_secret(s_shares, ts.threshold, ts.prime)
         IN  IF Cardinality({selected[i].r : i \in 1..Len(selected)}) # 1
             THEN Raise(RValuesDiffer)
             ELSE IF ~s_combined.ok THEN s_combined
             ELSE Return(<<partial_sigs[1].r, s_combined.val>>)

\* combine_signatures(partial_sigs, message)
ECDSA_combine_signatures(ts, partial_sigs, message) ==
    IF Len(partial_sigs) < ts.threshold THEN Raise(NeedThresholdSigs)
    ELSE IF Cardinality({partial_sigs[i].r : i \in 1..Len(partial_sigs)}) # 1
         THEN Raise(RValuesDiffer)
    ELSE LET r == partial_sigs[1].r
             selected == Prefix(partial_sigs, ts.threshold)
             s_shares == [i \in 1..Len(selected) |->
                            SecretShare(selected[i].signer_id, selected[i].s)]
             s_combined == reconstruct_secret(s_shares, ts.threshold, ts.prime)
         IN  IF ~s_combined.ok THEN s_combined
             ELSE Return(<<r, s_combined.val>>)

\* a try block without its except clause: what the block raises escapes
except_nothing(res) == res

\* try: ... except Exception as e: print(...); return False
except_Exception(res) == IF res.ok THEN res ELSE Return(FALSE)

\* the try block of verify_signature(signature, message)
ECDSA_verify_signature_try(ts, signature, message) ==
    LET r == signature[1]
        s == signature[2]
    IN  IF r <= 0 \/ r >= ts.prime \/ s <= 0 \/ s >= ts.prime THEN Return(FALSE)
        ELSE LET w == inverse(s, ts.prime)
             IN  IF ~w.ok THEN w
                 ELSE LET u1 == (hash_int(message, ts.prime) * w.val) % ts.prime
                          u2 == (r * w.val) % ts.prime
                          point1 == generator_mul(u1)
                          point2 == point_mul(u2, ts.public_key)
                          x1 == x_mod(point_add(point1, point2), ts.prime)
                      IN  IF ~x1.ok THEN x1 ELSE Return(r = x1.val)

\* verify_signature(signature, message): every exception is caught and gives False
ECDSA_verify_signature(ts, signature, message) ==
    except_Exception(ECDSA_verify_signature_try(ts, signature, message))

\* Step 1 of simulate_signing_process over the first m signers: the partial
\* signatures appended so far, the exception that ended the loop (if any) and
\* the _shared_k attribute.  create_partial_signature is called with k omitted.
RECURSIVE ECDSA_collect(_, _, _, _, _, _)
ECDSA_collect(ts, shared, message, signers, sampled, m) ==
    IF m = 0 THEN [partial_signatures |-> <<>>, raised |-> None, shared_k |-> shared]
    ELSE LET before == ECDSA_collect(ts, shared, message, signers, sampled, m - 1)
             call == ECDSA_create_partial_signature(ts, before.shared_k, signers[m],
                                                    message, None, sampled)
         IN  IF before.raised # None THEN before
             ELSE IF ~call.ret.ok
                  THEN [before EXCEPT !.raised = Some(call.ret.exc),
                                      !.shared_k = call.shared_k]
             ELSE [before EXCEPT
                     !.partial_signatures = Append(before.partial_signatures, call.ret.val),
                     !.shared_k = call.shared_k]

\* simulate_signing_process(message, signers): what it returns or raises (ret),
\* the partial signatures of the round, the combined signature (None if the round
\* did not get that far) and the _shared_k attribute it leaves behind
ECDSA_simulate_signing_process(ts, shared, message, signers, sampled) ==
    IF Len(signers) < ts.threshold
    THEN [ret |-> Return(FALSE), partial_signatures |-> <<>>, combined |-> None,
          shared_k |-> shared]
    ELSE LET step1 == ECDSA_collect(ts, None, message, signers, sampled, Len(signers))
             combined == ECDSA_combine_signatures(ts, step1.partial_signatures, message)
         IN  IF step1.raised # None
             THEN [ret |-> Raise(step1.raised[1]),
                   partial_signatures |-> step1.partial_signatures,
                   combined |-> None, shared_k |-> step1.shared_k]
             ELSE IF ~combined.ok
             THEN [ret |-> Return(FALSE),
                   partial_signatures |-> step1.partial_signatures,
                   combined |-> None, shared_k |-> step1.shared_k]
             ELSE [ret |-> ECDSA_verify_signature(ts, combined.val, message),
                   partial_signatures |-> step1.partial_signatures,
                   combined |-> Some(combined.val), shared_k |-> step1.shared_k]

(***************************************************************************)
(* BLS: class BLSThresholdSignature.                                        *)
(***************************************************************************)
BLSPartialSignature(signer_id, signature) ==
    [signer_id |-> signer_id, signature |-> signature]

\* __init__: secret is secrets.randbelow(curve_order), rand the coefficients
\* generate_polynomial drew.  Nothing is validated.
BLS_init(threshold, num_parties, secret, rand) ==
    LET private_shares == create_shares(secret, rand, num_parties, curve_order)
    IN  [scheme |-> "BLS",
         threshold |-> threshold,
         num_parties |-> num_parties,
         prime |-> curve_order,
         master_private_key |-> secret,
         public_key |-> multiply(G2, secret),
         private_shares |-> private_shares,
         public_key_shares |-> [i \in 1..num_parties |->
                                  <<private_shares[i].x,
                                    multiply(G2, private_shares[i].y)>>]]

get_public_key_share(bls, party_id) ==
    IF party_id < 1 \/ party_id > bls.num_parties THEN Raise(BadPartyId)
    ELSE Return(bls.public_key_shares[party_id][2])

\* create_partial_signature(party_id, message): sigma_i = sk_i * H(m)
BLS_create_partial_signature(bls, party_id, message) ==
    LET private_share == get_private_share(bls, party_id)
    IN  IF ~private_share.ok THEN private_share
        ELSE Return(BLSPartialSignature(party_id,
                        multiply(hash_to_g1(message), private_share.val.y)))

\* the try block of verify_partial_signature(partial_sig, message):
\* e(sigma_i, G2) = e(H(m), pk_i)
BLS_verify_partial_signature_try(bls, partial_sig, message) ==
    LET pk_share == get_public_key_share(bls, partial_sig.signer_id)
        lhs == checked_pairing(G2, partial_sig.signature)
        rhs == checked_pairing(pk_share.val, hash_to_g1(message))
    IN  IF ~pk_share.ok THEN pk_share
        ELSE IF ~lhs.ok THEN lhs
        ELSE IF ~rhs.ok THEN rhs
        ELSE Return(lhs.val = rhs.val)

\* verify_partial_signature that checks the partial signature against the
\* group public key
BLS_verify_partial_signature_group_key(bls, partial_sig, message) ==
    except_Exception(
        BLS_verify_partial_signature_try(
            [bls EXCEPT !.public_key_shares =
                [i \in 1..bls.num_parties |-> <<i, bls.public_key>>]],
            partial_sig, message))

\* verify_partial_signature(partial_sig, message): exceptions give False
BLS_verify_partial_signature(bls, partial_sig, message) ==
    except_Exception(BLS_verify_partial_signature_try(bls, partial_sig, message))

\* the loop of combine_signatures over the first m selected signatures;
\* combined_signature starts as None, which is also py_ecc's neutral element
RECURSIVE BLS_combine_loop(_, _, _)
BLS_combine_loop(selected_sigs, shares, m) ==
    IF m = 0 THEN 0
    ELSE add(BLS_combine_loop(selected_sigs, shares, m - 1),
             multiply(selected_sigs[m].signature,
                      BLS_lagrange_coefficient(shares, m, curve_order)))

\* BLS combine_signatures without the check of the number of partial signatures
BLS_combine_signatures_unchecked(bls, partial_sigs) ==
    LET selected_sigs == Prefix(partial_sigs, bls.threshold)
        shares == [i \in 1..Len(selected_sigs) |->
                        SecretShare(selected_sigs[i].signer_id, 0)]
    IN  Return(BLS_combine_loop(selected_sigs, shares, Len(selected_sigs)))

\* combine_signatures(partial_sigs)
BLS_combine_signatures(bls, partial_sigs) ==
    IF Len(partial_sigs) < bls.threshold THEN Raise(NeedThresholdSigs)
    ELSE LET selected_sigs == Prefix(partial_sigs, bls.threshold)
             shares == [i \in 1..Len(selected_sigs) |->
                            SecretShare(selected_sigs[i].signer_id, 0)]
         IN  Return(BLS_combine_loop(selected_sigs, shares, Len(selected_sigs)))

\* the try block of verify_signature(signature, message): e(sigma, G2) = e(H(m), PK)
BLS_verify_signature_try(bls, signature, message) ==
    LET lhs == checked_pairing(G2, signature)
        rhs == checked_pairing(bls.public_key, hash_to_g1(message))
    IN  IF ~lhs.ok THEN lhs
        ELSE IF ~rhs.ok THEN rhs
        ELSE Return(lhs.val = rhs.val)

\* verify_signature(signature, message): exceptions give False
BLS_verify_signature(bls, signature, message) ==
    except_Exception(BLS_verify_signature_try(bls, signature, message))

\* Step 1 of simulate_signing_process over the first m signers
RECURSIVE BLS_collect(_, _, _, _)
BLS_collect(bls, message, signers, m) ==
    IF m = 0 THEN [partial_signatures |-> <<>>, raised |-> None]
    ELSE LET before == BLS_collect(bls, message, signers, m - 1)
             call == BLS_create_partial_signature(bls, signers[m], message)
         IN  IF before.raised # None THEN before
             ELSE IF ~call.ok THEN [before EXCEPT !.raised = Some(call.exc)]
             ELSE [before EXCEPT
                     !.partial_signatures = Append(before.partial_signatures, call.val)]

\* simulate_signing_process(message, signers)
BLS_simulate_signing_process(bls, message, signers) ==
    IF Len(signers) < bls.threshold
    THEN [ret |-> Return(FALSE), partial_signatures |-> <<>>, combined |-> None]
    ELSE LET step1 == BLS_collect(bls, message, signers, Len(signers))
             combined == BLS_combine_signatures(bls, step1.partial_signatures)
         IN  IF step1.raised # None
             THEN [ret |-> Raise(step1.raised[1]),
                   partial_signatures |-> step1.partial_signatures, combined |-> None]
             ELSE IF ~combined.ok
             THEN [ret |-> Return(FALSE),
                   partial_signatures |-> step1.partial_signatures, combined |-> None]
             ELSE [ret |-> BLS_verify_signature(bls, combined.val, message),
                   partial_signatures |-> step1.partial_signatures,
                   combined |-> Some(combined.val)]

(***************************************************************************)
(* The state: one threshold-signature context and its caller.               *)
(***************************************************************************)
VARIABLES
    ctx,        \* the context object (NoContext before construction)
    shared_k,   \* the context's _shared_k attribute (None while it has none)
    last        \* the call the caller made last, with what it returned or raised

vars == <<ctx, shared_k, last>>

Idle == [op |-> "idle"]

\* no context has been constructed yet
NoContext == [scheme |-> "none", threshold |-> 0, num_parties |-> 0]

\* the arguments the caller draws
Thresholds == 0..MaxThreshold

PartyCounts == 1..MaxParties

\* what the threshold-1 calls of secrets.randbelow(prime) in generate_polynomial
\* return (values up to MaxCoeff)
RandomCoefficients(threshold, prime) ==
    [1..(IF threshold > 1 THEN threshold - 1 ELSE 0) ->
        0..(IF MaxCoeff < prime - 1 THEN MaxCoeff ELSE prime - 1)]

SignerLists(n) == SeqsUpTo(1..n, MaxSigs)

\* the nonce after k in [1, prime), cyclically
OtherNonce(k, prime) == (k % (prime - 1)) + 1

Init ==
    /\ ctx = NoContext
    /\ shared_k = None
    /\ last = Idle

\* ThresholdSignature(threshold, num_parties)
ECDSA_New(threshold, num_parties, secret, rand) ==
    /\ ctx.scheme = "none"
    /\ ctx' = ECDSA_init(threshold, num_parties, secret, rand)
    /\ last' = [op |-> "ECDSA.__init__", ret |-> Return(TRUE)]
    /\ UNCHANGED shared_k

\* BLSThresholdSignature(threshold, num_parties)
BLS_New(threshold, num_parties, secret, rand) ==
    /\ ctx.scheme = "none"
    /\ ctx' = BLS_init(threshold, num_parties, secret, rand)
    /\ last' = [op |-> "BLS.__init__", ret |-> Return(TRUE)]
    /\ UNCHANGED shared_k

\* The caller has taken note of the last call's outcome.
Done ==
    /\ last.op # "idle"
    /\ last' = Idle
    /\ UNCHANGED <<ctx, shared_k>>

\* ts.create_partial_signature(party_id, message, k)
ECDSA_CreatePartial(party_id, message, k, sampled) ==
    /\ ctx.scheme = "ECDSA" /\ last.op = "idle"
    /\ \E call \in {ECDSA_create_partial_signature(ctx, shared_k, party_id, message,
                                                   k, sampled)} :
           /\ shared_k' = call.shared_k
           /\ last' = [op |-> "ECDSA.create_partial_signature", party_id |-> party_id,
                       message |-> message, k |-> k, shared_before |-> shared_k,
                       ret |-> call.ret]
    /\ UNCHANGED ctx

\* The caller collects partial signatures for combine_signatures: every signer
\* but the last calls create_partial_signature(signer, message) with k omitted;
\* the last signer does the same, or passes the nonce k_last explicitly.
ECDSA_gather(ts, shared, message, signers, k_last, sampled) ==
    IF k_last = None \/ signers = <<>>
    THEN ECDSA_collect(ts, shared, message, signers, sampled, Len(signers))
    ELSE LET before == ECDSA_collect(ts, shared, message, signers, sampled,
                                     Len(signers) - 1)
             call == ECDSA_create_partial_signature(ts, before.shared_k,
                        signers[Len(signers)], message, k_last, sampled)
         IN  [before EXCEPT
                !.partial_signatures = Append(before.partial_signatures, call.ret.val),
                !.shared_k = call.shared_k]

\* ts.combine_signatures(partial_sigs, message) on the partial signatures the
\* caller gathered from signers (party ids in 1..num_parties)
ECDSA_Combine(signers, message, k_last, sampled) ==
    /\ ctx.scheme = "ECDSA" /\ last.op = "idle"
    /\ \E gathered \in {ECDSA_gather(ctx, shared_k, message, signers, k_last, sampled)} :
           /\ shared_k' = gathered.shared_k
           /\ last' = [op |-> "ECDSA.combine_signatures", signers |-> signers,
                       message |-> message, k_last |-> k_last,
                       partial_sigs |-> gathered.partial_signatures, attempt |-> 1,
                       ret |-> ECDSA_combine_signatures(ctx,
                                   gathered.partial_signatures, message)]
    /\ UNCHANGED ctx

\* ts.simulate_signing_process(message, signers)
ECDSA_Simulate(message, signers, sampled) ==
    /\ ctx.scheme = "ECDSA" /\ last.op = "idle"
    /\ \E call \in {ECDSA_simulate_signing_process(ctx, shared_k, message, signers,
                                                   sampled)} :
           /\ shared_k' = call.shared_k
           /\ last' = [op |-> "ECDSA.simulate_signing_process", signers |-> signers,
                       message |-> message,
                       partial_sigs |-> call.partial_signatures,
                       combined |-> call.combined, attempt |-> 1, ret |-> call.ret]
    /\ UNCHANGED ctx

\* The partial signatures of signers on message.
BLS_partials(bls, signers, message) ==
    [i \in 1..Len(signers) |->
        BLS_create_partial_signature(bls, signers[i], message).val]

\* bls.combine_signatures(partial_sigs)
BLS_Combine(signers, message) ==
    /\ ctx.scheme = "BLS" /\ last.op = "idle"
    /\ \E partial_sigs \in {BLS_partials(ctx, signers, message)} :
           last' = [op |-> "BLS.combine_signatures", signers |-> signers,
                    message |-> message, partial_sigs |-> partial_sigs, attempt |-> 1,
                    ret |-> BLS_combine_signatures(ctx, partial_sigs)]
    /\ UNCHANGED <<ctx, shared_k>>

\* bls.simulate_signing_process(message, signers)
BLS_Simulate(message, signers) ==
    /\ ctx.scheme = "BLS" /\ last.op = "idle"
    /\ \E call \in {BLS_simulate_signing_process(ctx, message, signers)} :
           last' = [op |-> "BLS.simulate_signing_process", signers |-> signers,
                    message |-> message, partial_sigs |-> call.partial_signatures,
                    combined |-> call.combined, attempt |-> 1, ret |-> call.ret]
    /\ UNCHANGED <<ctx, shared_k>>

\* ts.verify_signature(signature, message)
ECDSA_Verify(signature, message) ==
    /\ ctx.scheme = "ECDSA" /\ last.op = "idle"
    /\ last' = [op |-> "ECDSA.verify_signature", signature |-> signature,
                message |-> message,
                ret |-> ECDSA_verify_signature(ctx, signature, message)]
    /\ UNCHANGED <<ctx, shared_k>>

\* bls.verify_signature(signature, message)
BLS_Verify(signature, message) ==
    /\ ctx.scheme = "BLS" /\ last.op = "idle"
    /\ last' = [op |-> "BLS.verify_signature", signature |-> signature,
                message |-> message,
                ret |-> BLS_verify_signature(ctx, signature, message)]
    /\ UNCHANGED <<ctx, shared_k>>

\* the points a caller can pass as a signature: every element of G1 and a tuple
\* that is not on the curve
SignaturePoints == (0..(curve_order - 1)) \cup {NotOnCurve}

\* the partial signatures a caller can make of created: created itself, created
\* with another signature, created with another signer_id
Replaced(created, num_parties) ==
    {[created EXCEPT !.signature = pt] : pt \in SignaturePoints}
        \cup {[created EXCEPT !.signer_id = id] : id \in 0..(num_parties + 1)}

\* bls.verify_partial_signature(partial_sig, vmessage), where the caller made
\* partial_sig of created = bls.create_partial_signature(party_id, message)
BLS_VerifyPartial(party_id, message, partial_sig, vmessage) ==
    /\ ctx.scheme = "BLS" /\ last.op = "idle"
    /\ last' = [op |-> "BLS.verify_partial_signature", party_id |-> party_id,
                message |-> message,
                created |-> BLS_create_partial_signature(ctx, party_id, message).val,
                partial_sig |-> partial_sig, vmessage |-> vmessage,
                ret |-> BLS_verify_partial_signature(ctx, partial_sig, vmessage)]
    /\ UNCHANGED <<ctx, shared_k>>

\* The caller calls combine_signatures or simulate_signing_process again with the
\* arguments of a call that has just failed.
ECDSA_retry(op) ==
    IF op.op = "ECDSA.combine_signatures"
    THEN ECDSA_combine_signatures(ctx, op.partial_sigs, op.message)
    ELSE ECDSA_simulate_signing_process(ctx, shared_k, op.message, op.signers, 1).ret

BLS_retry(op) ==
    IF op.op = "BLS.combine_signatures"
    THEN BLS_combine_signatures(ctx, op.partial_sigs)
    ELSE BLS_simulate_signing_process(ctx, op.message, op.signers).ret

Retry ==
    /\ last.op \in {"ECDSA.combine_signatures", "BLS.combine_signatures",
                    "ECDSA.simulate_signing_process", "BLS.simulate_signing_process"}
    /\ Len(last.signers) < ctx.threshold
    /\ last.attempt < MaxAttempts
    /\ last' = [last EXCEPT !.attempt = @ + 1,
                            !.ret = IF ctx.scheme = "ECDSA" THEN ECDSA_retry(last)
                                    ELSE BLS_retry(last)]
    /\ UNCHANGED <<ctx, shared_k>>

\* the values secrets.randbelow(self.prime - 1) + 1 can return, when the call
\* draws one
Sampled(drawn) == IF drawn THEN 1..(SECP256k1_order - 1) ELSE {1}

Next ==
    \/ /\ ctx.scheme = "none"
       /\ \E threshold \in Thresholds, num_parties \in PartyCounts,
             secret \in 1..(SECP256k1_order - 1) :
             \E rand \in RandomCoefficients(threshold, SECP256k1_order) :
                ECDSA_New(threshold, num_parties, secret, rand)
    \/ /\ ctx.scheme = "none"
       /\ \E threshold \in Thresholds, num_parties \in PartyCounts,
             secret \in 0..(curve_order - 1) :
             \E rand \in RandomCoefficients(threshold, curve_order) :
                BLS_New(threshold, num_parties, secret, rand)
    \/ Done
    \/ Retry
    \/ /\ ctx.scheme = "ECDSA" /\ last.op = "idle"
       /\ \E party_id \in 0..(ctx.num_parties + 1), message \in Messages,
             k \in {None} \cup {Some(v) : v \in 0..(SECP256k1_order - 1)} :
             \E sampled \in Sampled(k = None /\ shared_k = None) :
                ECDSA_CreatePartial(party_id, message, k, sampled)
    \/ /\ ctx.scheme = "ECDSA" /\ last.op = "idle"
       /\ \E signers \in SignerLists(ctx.num_parties), message \in Messages,
             sampled \in Sampled(shared_k = None) :
             \E k_last \in {None, Some(OtherNonce(IF shared_k = None THEN sampled
                                                 ELSE shared_k[1], SECP256k1_order))} :
                ECDSA_Combine(signers, message, k_last, sampled)
    \/ /\ ctx.scheme = "ECDSA" /\ last.op = "idle"
       /\ \E signers \in SignerLists(ctx.num_parties), message \in Messages,
             sampled \in Sampled(TRUE) :
             ECDSA_Simulate(message, signers, sampled)
    \/ /\ ctx.scheme = "BLS" /\ last.op = "idle"
       /\ \E signers \in SignerLists(ctx.num_parties), message \in Messages :
             BLS_Combine(signers, message)
    \/ /\ ctx.scheme = "BLS" /\ last.op = "idle"
       /\ \E signers \in SignerLists(ctx.num_parties), message \in Messages :
             BLS_Simulate(message, signers)
    \/ /\ ctx.scheme = "ECDSA" /\ last.op = "idle"
       /\ \E r \in 0..SECP256k1_order, s \in 0..SECP256k1_order, message \in Messages :
             ECDSA_Verify(<<r, s>>, message)
    \/ /\ ctx.scheme = "BLS" /\ last.op = "idle"
       /\ \E signature \in SignaturePoints, message \in Messages :
             BLS_Verify(signature, message)
    \/ /\ ctx.scheme = "BLS" /\ last.op = "idle"
       /\ \E party_id \in 1..ctx.num_parties, message \in Messages,
             vmessage \in Messages :
             \E partial_sig \in Replaced(
                    BLS_create_partial_signature(ctx, party_id, message).val,
                    ctx.num_parties) :
                BLS_VerifyPartial(party_id, message, partial_sig, vmessage)

Spec == Init /\ [][Next]_vars

(***************************************************************************)
(* Shamir secret sharing on its own: a ShamirSecretSharing object over the  *)
(* ECDSA modulus, a polynomial, and reconstruct_secret applied to shares of *)
(* that polynomial.                                                         *)
(***************************************************************************)
\* secrets include values that are not reduced modulo the prime
ShamirSecrets == 0..(SECP256k1_order + 1)

\* the nonzero elements of the field, as share x-values
FieldXs == 1..(SECP256k1_order - 1)

ShamirInit ==
    /\ \E threshold \in 1..MaxThreshold, secret \in ShamirSecrets :
          \E rand \in [1..(threshold - 1) -> 0..(SECP256k1_order - 1)] :
             ctx = [scheme |-> "Shamir", threshold |-> threshold,
                    num_parties |-> SECP256k1_order - 1, prime |-> SECP256k1_order,
                    coefficients |-> generate_polynomial(secret, rand),
                    shares |-> create_shares(secret, rand, SECP256k1_order - 1,
                                             SECP256k1_order)]
    /\ shared_k = None
    /\ last = Idle

\* sss.reconstruct_secret(shares) on the shares of the parties in xs, in that order
Shamir_Reconstruct(xs) ==
    /\ ctx.scheme = "Shamir" /\ last.op = "idle"
    /\ \E shares \in {[i \in 1..Len(xs) |-> ctx.shares[xs[i]]]} :
          last' = [op |-> "reconstruct_secret", xs |-> xs, shares |-> shares,
                   ret |-> reconstruct_secret(shares, ctx.threshold, ctx.prime)]
    /\ UNCHANGED <<ctx, shared_k>>

ShamirNext == \E xs \in SeqsUpTo(FieldXs, MaxSigs) : Shamir_Reconstruct(xs)

SpecShamir == ShamirInit /\ [][ShamirNext]_vars

(***************************************************************************)
(* Properties.                                                              *)
(***************************************************************************)
\* the configurations the specification allows: 1 <= t <= n
ValidConfig(c) == 1 <= c.threshold /\ c.threshold <= c.num_parties

PairwiseDistinct(seq) ==
    \A i, j \in 1..Len(seq) : i # j => seq[i] # seq[j]

\* at least t entries, the first t of them pairwise distinct
FirstDistinct(seq, t) == Len(seq) >= t /\ PairwiseDistinct(Prefix(seq, t))

\* r = (k * G).x mod p
NonceR(k) == generator_mul(k)[1] % SECP256k1_order

\* C1 (BLS uniqueness): in a BLS context with 1 <= t <= n, combine_signatures on
\* at least t partial signatures of a message m whose first t signer ids are
\* pairwise distinct returns sk * hash_to_g1(m), whatever the committee and its
\* order, and verify_signature accepts it.
C1_BLSUniqueness ==
    (/\ ctx.scheme = "BLS" /\ ValidConfig(ctx)
     /\ last.op = "BLS.combine_signatures"
     /\ FirstDistinct(last.signers, ctx.threshold))
    => /\ last.ret = Return(multiply(hash_to_g1(last.message), ctx.master_private_key))
       /\ BLS_verify_signature(ctx, last.ret.val, last.message) = Return(TRUE)

\* a 2-of-3 aggregate from a committee that is not in ascending order, with an
\* extra partial signature beyond the first t, that is not the neutral element
C1_Witness ==
    /\ ctx.scheme = "BLS" /\ ctx.threshold = 2 /\ ctx.num_parties = 3
    /\ last.op = "BLS.combine_signatures"
    /\ last.signers = <<3, 1, 2>>
    /\ last.ret.ok /\ last.ret.val # 0

\* C2 (ECDSA completeness): with 1 <= t <= |committee| <= n and pairwise distinct
\* signer ids, simulate_signing_process returns True for every message.
C2_ECDSACompleteness ==
    (/\ ctx.scheme = "ECDSA" /\ ValidConfig(ctx)
     /\ last.op = "ECDSA.simulate_signing_process"
     /\ Len(last.signers) >= ctx.threshold
     /\ Len(last.signers) <= ctx.num_parties
     /\ PairwiseDistinct(last.signers))
    => last.ret = Return(TRUE)

\* C3 (ECDSA combination equals the single-key signature): at least t partial
\* signatures of one message made with one nonce k in [1, p), the first t signer
\* ids pairwise distinct: combine_signatures returns (r, s) with
\* r = (k*G).x mod p and s = k^-1 * (e + r*sk) mod p.
C3_ECDSACombinationIsSingleKey ==
    (/\ ctx.scheme = "ECDSA" /\ ValidConfig(ctx)
     /\ last.op = "ECDSA.combine_signatures" /\ last.k_last = None
     /\ FirstDistinct(last.signers, ctx.threshold))
    => /\ shared_k # None /\ shared_k[1] \in 1..(SECP256k1_order - 1)
       /\ last.ret = Return(<<NonceR(shared_k[1]),
                (inverse(shared_k[1], SECP256k1_order).val
                    * (sha256_int(last.message) + NonceR(shared_k[1]) * ctx.master_key))
                 % SECP256k1_order>>)

\* a 3-of-3 combination of a committee that is not in ascending order, with s # 0
C3_Witness ==
    /\ ctx.scheme = "ECDSA" /\ ctx.threshold = 3 /\ ctx.num_parties = 3
    /\ last.op = "ECDSA.combine_signatures" /\ last.k_last = None
    /\ last.signers = <<2, 3, 1>>
    /\ last.ret.ok /\ last.ret.val[2] # 0

\* C4 (Lagrange round-trip): reconstruct_secret on at least t shares of a
\* polynomial [a0..a_{t-1}], the first t x-values pairwise distinct and nonzero,
\* returns a0 mod p.
C4_LagrangeRoundTrip ==
    (/\ ctx.scheme = "Shamir"
     /\ last.op = "reconstruct_secret"
     /\ FirstDistinct(last.xs, ctx.threshold))
    => last.ret = Return(ctx.coefficients[1] % ctx.prime)

\* a degree-2 polynomial with a secret that is not reduced modulo p and nonzero
\* higher coefficients, reconstructed from three shares not in ascending order
C4_Witness ==
    /\ ctx.scheme = "Shamir" /\ ctx.threshold = 3
    /\ ctx.coefficients[1] > ctx.prime
    /\ ctx.coefficients[2] # 0 /\ ctx.coefficients[3] # 0
    /\ last.op = "reconstruct_secret"
    /\ last.xs = <<5, 2, 6>>
    /\ last.ret.ok

\* C5 (threshold soundness): in both schemes combine_signatures on fewer than t
\* partial signatures raises the "need at least threshold partial signatures"
\* error, on every attempt, and simulate_signing_process with fewer than t
\* signers returns False.
C5_ThresholdSoundness ==
    /\ (/\ last.op \in {"BLS.combine_signatures", "ECDSA.combine_signatures"}
        /\ Len(last.partial_sigs) < ctx.threshold)
       => last.ret = Raise(NeedThresholdSigs)
    /\ (/\ last.op \in {"BLS.simulate_signing_process",
                        "ECDSA.simulate_signing_process"}
        /\ Len(last.signers) < ctx.threshold)
       => last.ret = Return(FALSE)

\* combine_signatures called again with the same t-1 >= 1 partial signatures
C5_Witness ==
    /\ ctx.scheme = "ECDSA" /\ ValidConfig(ctx)
    /\ last.op = "ECDSA.combine_signatures"
    /\ Len(last.partial_sigs) = ctx.threshold - 1 /\ Len(last.partial_sigs) >= 1
    /\ last.attempt = MaxAttempts
    /\ ~last.ret.ok

\* C6 (ECDSA nonce consistency check): combine_signatures on at least t partial
\* signatures of which two carry different r values raises the "r values must be
\* equal" error, also when the differing one lies beyond the first t.
C6_NonceConsistencyCheck ==
    (/\ ctx.scheme = "ECDSA"
     /\ last.op = "ECDSA.combine_signatures"
     /\ Len(last.partial_sigs) >= ctx.threshold
     /\ \E i, j \in 1..Len(last.partial_sigs) :
            last.partial_sigs[i].r # last.partial_sigs[j].r)
    => last.ret = Raise(RValuesDiffer)

\* three partial signatures in a 2-of-3 context: the first two, which alone are
\* interpolated, agree on r and the third does not
C6_Witness ==
    /\ ctx.scheme = "ECDSA" /\ ctx.threshold = 2 /\ ctx.num_parties = 3
    /\ last.op = "ECDSA.combine_signatures"
    /\ Len(last.partial_sigs) = 3
    /\ PairwiseDistinct(last.signers)
    /\ last.partial_sigs[1].r = last.partial_sigs[2].r
    /\ last.partial_sigs[3].r # last.partial_sigs[1].r
    /\ last.ret = Raise(RValuesDiffer)

\* C7 (duplicate signer ids): BLS combine_signatures on at least t partial
\* signatures, two of the first t with the same signer_id, raises an error and
\* returns no aggregate.
C7_DuplicateSignersRejected ==
    (/\ ctx.scheme = "BLS" /\ ValidConfig(ctx)
     /\ last.op = "BLS.combine_signatures"
     /\ Len(last.signers) >= ctx.threshold
     /\ ~PairwiseDistinct(Prefix(last.signers, ctx.threshold)))
    => ~last.ret.ok

\* C8 (setup validation): no BLS or ECDSA context exists with t < 1 or t > n.
C8_SetupValidation ==
    ctx.scheme \in {"BLS", "ECDSA"} => ValidConfig(ctx)

\* C9 (round nonce destroyed at round end): when simulate_signing_process has
\* returned, the context holds no _shared_k.
C9_NonceDestroyedAtRoundEnd ==
    (/\ ctx.scheme = "ECDSA" /\ ValidConfig(ctx)
     /\ last.op = "ECDSA.simulate_signing_process")
    => shared_k = None

\* C10 (round nonce set once per round): a create_partial_signature call with k
\* omitted that finds no _shared_k caches a nonce in [1, p); one that finds a
\* _shared_k leaves it as it is; either way the partial signature carries the r
\* of the cached nonce.  All partial signatures of one simulate_signing_process
\* round carry the r of the nonce the round cached.
C10_NonceSetOncePerRound ==
    /\ (/\ last.op = "ECDSA.create_partial_signature"
        /\ last.k = None /\ last.ret.ok)
       => /\ shared_k # None /\ shared_k[1] \in 1..(SECP256k1_order - 1)
          /\ last.shared_before # None => shared_k = last.shared_before
          /\ last.ret.val.r = NonceR(shared_k[1])
    /\ (/\ last.op = "ECDSA.simulate_signing_process"
        /\ last.partial_sigs # <<>>)
       => /\ shared_k # None /\ shared_k[1] \in 1..(SECP256k1_order - 1)
          /\ \A i \in 1..Len(last.partial_sigs) :
                last.partial_sigs[i].r = NonceR(shared_k[1])

\* a create_partial_signature call with k omitted that found the nonce of an
\* earlier call and used it
C10_Witness ==
    /\ last.op = "ECDSA.create_partial_signature"
    /\ last.k = None /\ last.ret.ok
    /\ last.shared_before # None
    /\ shared_k = last.shared_before

\* C12 (ECDSA invalid nonce rejection): create_partial_signature never returns a
\* partial signature with r = 0: a call whose nonce k gives (k*G).x mod p = 0, or
\* whose nonce is 0 mod p, raises an error.
C12_InvalidNonceRejected ==
    (/\ ctx.scheme = "ECDSA" /\ ValidConfig(ctx)
     /\ last.op = "ECDSA.create_partial_signature"
     /\ last.party_id \in 1..ctx.num_parties
     /\ last.ret.ok)
    => last.ret.val.r # 0

\* the calls that verify
VerifyOps ==
    {"ECDSA.verify_signature", "BLS.verify_signature", "BLS.verify_partial_signature"}

\* C11 as stated (BLS partial verifiability): verify_partial_signature on the
\* partial signature create_partial_signature(i, m) made returns True for m; with
\* the G1 point replaced by another point, or for another message, it returns False.
C11_PartialVerifiability ==
    (/\ ctx.scheme = "BLS" /\ ValidConfig(ctx)
     /\ last.op = "BLS.verify_partial_signature"
     /\ last.partial_sig.signer_id = last.party_id
     /\ last.partial_sig = last.created \/ last.vmessage = last.message)
    => last.ret = Return(last.partial_sig = last.created
                            /\ last.vmessage = last.message)

\* C11 amended: as C11, but verifying the unchanged partial signature against
\* another message returns False provided the party's private share is nonzero
\* and the two messages hash to different points of G1.
C11_PartialVerifiabilityAmended ==
    (/\ ctx.scheme = "BLS" /\ ValidConfig(ctx)
     /\ last.op = "BLS.verify_partial_signature"
     /\ last.partial_sig.signer_id = last.party_id)
    => /\ (last.partial_sig = last.created /\ last.vmessage = last.message)
            => last.ret = Return(TRUE)
       /\ (last.partial_sig # last.created /\ last.vmessage = last.message)
            => last.ret = Return(FALSE)
       /\ (/\ last.partial_sig = last.created
           /\ ctx.private_shares[last.party_id].y # 0
           /\ hash_to_g1(last.vmessage) # hash_to_g1(last.message))
            => last.ret = Return(FALSE)

\* the partial signature of party 2 in a 2-of-3 context, not the neutral
\* element, accepted for its message
C11_Witness ==
    /\ ctx.scheme = "BLS" /\ ctx.threshold = 2 /\ ctx.num_parties = 3
    /\ last.op = "BLS.verify_partial_signature"
    /\ last.party_id = 2
    /\ last.partial_sig = last.created /\ last.created.signature # 0
    /\ last.vmessage = last.message
    /\ last.ret = Return(TRUE)

\* C13 (verification never raises): a verify_signature or
\* verify_partial_signature call returns True or False and leaves the context and
\* its _shared_k as they were; it returns False for a partial signature whose
\* signer_id is outside 1..n, for an ECDSA (r, s) with r or s outside [1, p), and
\* for an ECDSA (r, s) whose recomputed point u1*G + u2*Q is the point at infinity.
C13_VerificationNeverRaises ==
    [][(last.op = "idle" /\ last'.op \in VerifyOps)
        => /\ last'.ret \in {Return(TRUE), Return(FALSE)}
           /\ ctx' = ctx /\ shared_k' = shared_k
           /\ (/\ last'.op = "BLS.verify_partial_signature"
               /\ last'.partial_sig.signer_id \notin 1..ctx.num_parties)
                => last'.ret = Return(FALSE)
           /\ (/\ last'.op = "ECDSA.verify_signature"
               /\ \/ last'.signature[1] \notin 1..(SECP256k1_order - 1)
                  \/ last'.signature[2] \notin 1..(SECP256k1_order - 1)
                  \/ (sha256_int(last'.message) + last'.signature[1] * ctx.master_key)
                        % SECP256k1_order = 0)
                => last'.ret = Return(FALSE)]_vars

\* an ECDSA (r, s) within [1, p) whose recomputed point is the point at infinity,
\* verified after a nonce has been cached
C13_Witness ==
    /\ ctx.scheme = "ECDSA" /\ ValidConfig(ctx)
    /\ last.op = "ECDSA.verify_signature"
    /\ last.signature[1] \in 1..(SECP256k1_order - 1)
    /\ last.signature[2] \in 1..(SECP256k1_order - 1)
    /\ (sha256_int(last.message) + last.signature[1] * ctx.master_key)
            % SECP256k1_order = 0
    /\ shared_k # None
    /\ last.ret = Return(FALSE)

=============================================================================
